---- MODULE Spec2Model ----
(***************************************************************************)
(* Model of src/src/block.tsx: the Mini Piano React component.             *)
(*                                                                         *)
(* The component's state is three useState cells (activeKeys, isPlaying,   *)
(* hasInteracted) and one ref (audioContext).  Handlers are closures of    *)
(* the last committed render, so the values they read through a closure    *)
(* (activeKeys in handleKeyDown, isPlaying in playDemo, hasInteracted in   *)
(* initAudioContext) are those of `rendered`; functional updates           *)
(* (setActiveKeys(prev => ...)) read the current cell.  Every handler runs *)
(* to completion on the UI thread; under Spec React commits its updates    *)
(* before the next event is dispatched, so each action ends with Commit.   *)
(* BatchedSpec lets a second click arrive before that commit.              *)
(*                                                                         *)
(* Time is explicit: every pending setTimeout carries the delay it was     *)
(* given (ms) and the time elapsed since it was set (age); Tick advances   *)
(* all of them and a timeout fires when its age reaches its delay.         *)
(***************************************************************************)
EXTENDS Integers, Sequences, FiniteSets, Bags, TLC

VARIABLES
    activeKeys,     \* useState<Set<string>>: notes highlighted        (line 16)
    isPlaying,      \* useState(false): playing flag                   (line 17)
    audioContext,   \* useRef<AudioContext|null>: Null or a context   (line 18)
    hasInteracted,  \* useState(false): interaction flag               (line 19)
    rendered,       \* state cells as captured by the committed render's closures
    timers,         \* bag of pending removal timeouts of handleKeyPress (line 83)
    runs,           \* sequence of playDemo invocations suspended at an await
    messages,       \* postMessage calls made so far, per target       (lines 48-49)
    sound,          \* tones started by the last step (oscillator.start, line 71)
    failed,         \* history: some new AudioContext() call has thrown (line 44)
    batching,       \* whether React commits after the task's handlers, not per handler
    lastEvent       \* the event handled by the last step and how it ended

vars == <<activeKeys, isPlaying, audioContext, hasInteracted, rendered,
          timers, runs, messages, sound, failed, batching, lastEvent>>

(***************************************************************************)
(* Bounds of the model.                                                    *)
(***************************************************************************)
\* Removal timeouts that may be pending at once (clicks are unbounded in the code).
MaxTimers == 2

\* playDemo invocations that may be suspended at once.
MaxRuns == 2

\* Keys the user clicks: C (a white key, first and last note of the melody)
\* and C# (a black key outside the melody).
ClickedKeys == {"C", "C#"}

\* event.key values typed: mapped lower case, mapped upper case, a black
\* key, and two unmapped ones.
TypedKeys == {"q", "Q", "2", "x", "Enter"}

(***************************************************************************)
(* Key catalog (lines 22-39).  frequency is in hundredths of a Hz and      *)
(* position in tenths of a key width, to stay within the integers.         *)
(***************************************************************************)
\* Fault variant: the eighth white key named C like the first.
whiteKeysDuplicate == <<
    [note |-> "C",  frequency |-> 26163, color |-> "#FF6B6B", isBlack |-> FALSE, position |-> 0],
    [note |-> "D",  frequency |-> 29366, color |-> "#4ECDC4", isBlack |-> FALSE, position |-> 10],
    [note |-> "E",  frequency |-> 32963, color |-> "#45B7D1", isBlack |-> FALSE, position |-> 20],
    [note |-> "F",  frequency |-> 34923, color |-> "#96CEB4", isBlack |-> FALSE, position |-> 30],
    [note |-> "G",  frequency |-> 39200, color |-> "#FECA57", isBlack |-> FALSE, position |-> 40],
    [note |-> "A",  frequency |-> 44000, color |-> "#FF9FF3", isBlack |-> FALSE, position |-> 50],
    [note |-> "B",  frequency |-> 49388, color |-> "#A8E6CF", isBlack |-> FALSE, position |-> 60],
    [note |-> "C",  frequency |-> 52325, color |-> "#FFB6C1", isBlack |-> FALSE, position |-> 70] >>

whiteKeys == <<
    [note |-> "C",  frequency |-> 26163, color |-> "#FF6B6B", isBlack |-> FALSE, position |-> 0],
    [note |-> "D",  frequency |-> 29366, color |-> "#4ECDC4", isBlack |-> FALSE, position |-> 10],
    [note |-> "E",  frequency |-> 32963, color |-> "#45B7D1", isBlack |-> FALSE, position |-> 20],
    [note |-> "F",  frequency |-> 34923, color |-> "#96CEB4", isBlack |-> FALSE, position |-> 30],
    [note |-> "G",  frequency |-> 39200, color |-> "#FECA57", isBlack |-> FALSE, position |-> 40],
    [note |-> "A",  frequency |-> 44000, color |-> "#FF9FF3", isBlack |-> FALSE, position |-> 50],
    [note |-> "B",  frequency |-> 49388, color |-> "#A8E6CF", isBlack |-> FALSE, position |-> 60],
    [note |-> "C2", frequency |-> 52325, color |-> "#FFB6C1", isBlack |-> FALSE, position |-> 70] >>

blackKeys == <<
    [note |-> "C#", frequency |-> 27718, color |-> "#2C3E50", isBlack |-> TRUE, position |-> 5],
    [note |-> "D#", frequency |-> 31113, color |-> "#34495E", isBlack |-> TRUE, position |-> 15],
    [note |-> "F#", frequency |-> 36999, color |-> "#2C3E50", isBlack |-> TRUE, position |-> 35],
    [note |-> "G#", frequency |-> 41530, color |-> "#34495E", isBlack |-> TRUE, position |-> 45],
    [note |-> "A#", frequency |-> 46616, color |-> "#2C3E50", isBlack |-> TRUE, position |-> 55] >>

\* The buttons rendered by whiteKeys.map and blackKeys.map (lines 188, 228).
AllKeys == whiteKeys \o blackKeys

\* The note identifiers of the catalog.
Notes == {AllKeys[i].note : i \in DOMAIN AllKeys}

\* The catalog entry a button is rendered from (key={key.note}).
KeyOf(note) == AllKeys[CHOOSE i \in DOMAIN AllKeys : AllKeys[i].note = note]

(***************************************************************************)
(* Timing and tone constants of the code, in milliseconds.                 *)
(***************************************************************************)
DefaultDuration == 300      \* playSound's default duration 0.3 s (line 54)
DemoDuration == 500         \* playSound(key.frequency, 0.5)      (line 126)
HighlightMs == 200          \* setTimeout(..., 200)               (line 89)
NoteHoldMs == 600           \* setTimeout(resolve, 600)           (line 128)
NoteGapMs == 100            \* setTimeout(resolve, 100)           (line 132)

\* The clock advances in steps of the shortest timeout of the program.
TickMs == NoteGapMs

\* The ref holds null or an AudioContext object; objects are told apart by
\* the order of their construction in the session (1 is the first).
Null == 0
NewContext(current) == current + 1
Undefined == [note |-> "undefined"]

(***************************************************************************)
(* Keyboard mapping (lines 94-98) and String.prototype.toLowerCase as far  *)
(* as the typed keys need it (line 101).                                   *)
(***************************************************************************)
\* Fault variant: the keys 5 and 6 bound to each other's sharp.
keyMapSwapped ==
    [ch \in {"q", "w", "e", "r", "t", "y", "u", "i", "2", "3", "5", "6", "7"} |->
        CASE ch = "q" -> whiteKeys[1] [] ch = "w" -> whiteKeys[2]
          [] ch = "e" -> whiteKeys[3] [] ch = "r" -> whiteKeys[4]
          [] ch = "t" -> whiteKeys[5] [] ch = "y" -> whiteKeys[6]
          [] ch = "u" -> whiteKeys[7] [] ch = "i" -> whiteKeys[8]
          [] ch = "2" -> blackKeys[1] [] ch = "3" -> blackKeys[2]
          [] ch = "5" -> blackKeys[4] [] ch = "6" -> blackKeys[3]
          [] ch = "7" -> blackKeys[5]]

keyMap ==
    [ch \in {"q", "w", "e", "r", "t", "y", "u", "i", "2", "3", "5", "6", "7"} |->
        CASE ch = "q" -> whiteKeys[1] [] ch = "w" -> whiteKeys[2]
          [] ch = "e" -> whiteKeys[3] [] ch = "r" -> whiteKeys[4]
          [] ch = "t" -> whiteKeys[5] [] ch = "y" -> whiteKeys[6]
          [] ch = "u" -> whiteKeys[7] [] ch = "i" -> whiteKeys[8]
          [] ch = "2" -> blackKeys[1] [] ch = "3" -> blackKeys[2]
          [] ch = "5" -> blackKeys[3] [] ch = "6" -> blackKeys[4]
          [] ch = "7" -> blackKeys[5]]

\* The event.key values that toLowerCase changes: the letters A-Z and the
\* named keys (a digit, a lower-case letter or a punctuation mark is its own
\* lower case).
UpperCase ==
    [A |-> "a", B |-> "b", C |-> "c", D |-> "d", E |-> "e", F |-> "f",
     G |-> "g", H |-> "h", I |-> "i", J |-> "j", K |-> "k", L |-> "l",
     M |-> "m", N |-> "n", O |-> "o", P |-> "p", Q |-> "q", R |-> "r",
     S |-> "s", T |-> "t", U |-> "u", V |-> "v", W |-> "w", X |-> "x",
     Y |-> "y", Z |-> "z", Enter |-> "enter", Shift |-> "shift",
     Tab |-> "tab", Escape |-> "escape", Control |-> "control",
     Alt |-> "alt", Backspace |-> "backspace", ArrowLeft |-> "arrowleft",
     ArrowRight |-> "arrowright", CapsLock |-> "capslock", F1 |-> "f1",
     F2 |-> "f2"]

toLowerCase(s) == IF s \in DOMAIN UpperCase THEN UpperCase[s] ELSE s

\* keyMap[event.key.toLowerCase()]: the catalog key, or undefined.
KeyMapLookup(eventKey) ==
    LET ch == toLowerCase(eventKey)
    IN  IF ch \in DOMAIN keyMap THEN keyMap[ch] ELSE Undefined

\* Fault variant: the melody with its 5th and 6th notes exchanged.
melodySwapped == << whiteKeys[1], whiteKeys[3], whiteKeys[5], whiteKeys[5],
                    whiteKeys[2], whiteKeys[4], whiteKeys[1] >>

\* melody (lines 118-121); TLA+ sequences count from 1.
melody == << whiteKeys[1], whiteKeys[3], whiteKeys[5], whiteKeys[5],
             whiteKeys[4], whiteKeys[2], whiteKeys[1] >>

(***************************************************************************)
(* Initial state: the values given to useState/useRef (lines 16-19).       *)
(***************************************************************************)
NoMessages == [window |-> 0, parent |-> 0]

Init ==
    /\ activeKeys = {}
    /\ isPlaying = FALSE
    /\ audioContext = Null
    /\ hasInteracted = FALSE
    /\ rendered = [activeKeys |-> {}, isPlaying |-> FALSE, hasInteracted |-> FALSE]
    /\ timers = EmptyBag
    /\ runs = << >>
    /\ messages = NoMessages
    /\ sound = << >>
    /\ failed = FALSE
    /\ batching = FALSE
    /\ lastEvent = [op |-> "mount", arg |-> "", result |-> "done"]

\* React re-renders with the updated cells; the new closures capture them.
\* With batching the re-render is left to Render below, after the handlers
\* of the task have run.
Commit ==
    /\ rendered' = IF batching THEN rendered
                   ELSE [activeKeys |-> activeKeys', isPlaying |-> isPlaying',
                         hasInteracted |-> hasInteracted']
    /\ UNCHANGED batching

(***************************************************************************)
(* initAudioContext (lines 42-51).  `created` is the outcome of            *)
(* new AudioContext(): TRUE when it returns a context, FALSE when the      *)
(* constructor throws (no AudioContext in the environment, or the browser  *)
(* refuses another context).  There is no try/catch in the component, so a *)
(* throw unwinds the handler that called initAudioContext.                 *)
(***************************************************************************)
\* Fault variant: the guard of line 43 left out, every call creates and notifies.
ShouldCreateUnguarded == TRUE

\* Fault variant: no second attempt once a creation has failed.
ShouldCreateNoRetry == audioContext = Null /\ ~rendered.hasInteracted /\ ~failed

\* line 43: if (!audioContext.current && !hasInteracted)
ShouldCreate == audioContext = Null /\ ~rendered.hasInteracted

\* The outcomes new AudioContext() can have where it is evaluated.
CreationOutcomes == IF ShouldCreate THEN BOOLEAN ELSE {TRUE}

CreationThrows(created) == ShouldCreate /\ ~created

\* lines 48-49: one postMessage to window, one to window.parent.
PostCompletion(m) == [window |-> m.window + 1, parent |-> m.parent + 1]

initAudioContext ==
    IF ShouldCreate
    THEN /\ audioContext' = NewContext(audioContext)
         /\ hasInteracted' = TRUE
         /\ messages' = PostCompletion(messages)
    ELSE UNCHANGED <<audioContext, hasInteracted, messages>>

\* Fault variant: the handle read as it was when the handler started (a
\* value captured by the render instead of a ref read at the call).
playSoundStale(ctx, frequency, duration) ==
    IF audioContext = Null THEN << >>
    ELSE << [frequency |-> frequency, duration |-> duration] >>

\* playSound (lines 54-73): the tones it starts, given the ref it reads.
playSound(ctx, frequency, duration) ==
    IF ctx = Null THEN << >>
    ELSE << [frequency |-> frequency, duration |-> duration] >>

\* An exception leaves the handler before any set-state call: nothing changes.
Unwind(op, arg) ==
    /\ UNCHANGED <<activeKeys, isPlaying, audioContext, hasInteracted,
                   rendered, timers, runs, messages, batching>>
    /\ sound' = << >>
    /\ failed' = TRUE
    /\ lastEvent' = [op |-> op, arg |-> arg, result |-> "threw"]

\* A handler that returns without doing anything.
Ignore(op, arg) ==
    /\ UNCHANGED <<activeKeys, isPlaying, audioContext, hasInteracted,
                   rendered, timers, runs, messages, failed, batching>>
    /\ sound' = << >>
    /\ lastEvent' = [op |-> op, arg |-> arg, result |-> "ignored"]

\* setTimeout(callback, ms) of handleKeyPress: the note its callback deletes.
RemovalTimeout(note) == [note |-> note, ms |-> HighlightMs, age |-> 0]

\* Fault variant: a timer per note, the earlier timeout of the note cleared.
ScheduleReset(pending, t) ==
    [u \in {x \in BagToSet(pending) : x.note # t.note} \cup {t} |->
        IF u = t THEN 1 ELSE pending[u]]

\* setTimeout (line 83): one more pending timeout; those pending stay as
\* they are (the returned id is dropped, clearTimeout is never called).
Schedule(pending, t) == pending (+) SetToBag({t})

(***************************************************************************)
(* handleKeyPress (lines 76-90), called from a button's onClick or from    *)
(* handleKeyDown; op and arg record which.                                 *)
(***************************************************************************)
handleKeyPress(key, created, op, arg) ==
    /\ BagCardinality(timers) < MaxTimers
    /\ IF CreationThrows(created)
       THEN Unwind(op, arg)
       ELSE /\ initAudioContext
            /\ activeKeys' = activeKeys \cup {key.note}
            /\ sound' = playSound(audioContext', key.frequency, DefaultDuration)
            /\ timers' = Schedule(timers, RemovalTimeout(key.note))
            /\ UNCHANGED <<isPlaying, runs, failed>>
            /\ Commit
            /\ lastEvent' = [op |-> op, arg |-> arg, result |-> "done"]

\* onClick of a white or black key button (lines 191, 231).
Click(key, created) == handleKeyPress(key, created, "click", key.note)

\* Fault variant: the test of line 102 without its activeKeys.has part.
AcceptsRepeat(key) == key.note # Undefined.note

\* line 102: the test handleKeyDown makes before calling handleKeyPress.
Accepts(key) == key.note # Undefined.note /\ key.note \notin rendered.activeKeys

\* handleKeyDown (lines 100-105), the window keydown listener.
handleKeyDown(eventKey, created) ==
    LET key == KeyMapLookup(eventKey)
    IN  IF Accepts(key)
        THEN handleKeyPress(key, created, "keydown", eventKey)
        ELSE Ignore("keydown", eventKey)

\* The callback of the removal timeout (lines 83-89), when the timeout is due.
Due(t) == t.age >= t.ms

\* Fault variant: the copy is changed but the previous set is returned.
DeletedFromCopyOnly(prev, note) == prev

\* lines 84-88: the functional update, a copy of prev without the note.
Deleted(prev, note) == prev \ {note}

RemoveActive(t) ==
    /\ BagIn(t, timers)
    /\ Due(t)
    /\ activeKeys' = Deleted(activeKeys, t.note)
    /\ timers' = timers (-) SetToBag({t})
    /\ UNCHANGED <<isPlaying, audioContext, hasInteracted, runs, messages, failed>>
    /\ Commit
    /\ sound' = << >>
    /\ lastEvent' = [op |-> "timeout", arg |-> t.note, result |-> "done"]

(***************************************************************************)
(* playDemo (lines 112-137).  The async function runs synchronously up to  *)
(* its first await; each later action resumes one suspended invocation     *)
(* when the timeout it awaits is due.  A run records the melody index i    *)
(* (from 1), the await it is suspended at (pc: "hold" is line 128, "gap"   *)
(* is line 132), the age of the awaited timeout and, as history, the notes *)
(* it has shown so far.                                                    *)
(***************************************************************************)
\* Fault variant: the early return of line 113 left out.
AlreadyPlayingNever == FALSE

\* line 113: if (isPlaying) return;
AlreadyPlaying == rendered.isPlaying

\* Fault variant: the demo note added to the current set (a functional
\* update) instead of replacing it.
DemoShowMerged(i) == activeKeys \cup {melody[i].note}

\* lines 125-126 for melody[i]: the highlight written and the tone started.
DemoShow(i) == {melody[i].note}

playDemo(created) ==
    IF AlreadyPlaying
    THEN Ignore("playDemo", "")
    ELSE IF CreationThrows(created)
    THEN Unwind("playDemo", "")
    ELSE /\ Len(runs) < MaxRuns
         /\ initAudioContext
         /\ isPlaying' = TRUE
         /\ activeKeys' = DemoShow(1)
         /\ sound' = playSound(audioContext', melody[1].frequency, DemoDuration)
         /\ runs' = Append(runs, [i |-> 1, pc |-> "hold", ms |-> NoteHoldMs, age |-> 0,
                                  shown |-> << melody[1].note >>])
         /\ UNCHANGED <<timers, failed>>
         /\ Commit
         /\ lastEvent' = [op |-> "playDemo", arg |-> "", result |-> "done"]

RemoveAt(s, j) == SubSeq(s, 1, j - 1) \o SubSeq(s, j + 1, Len(s))

\* line 123: the loop test i < melody.length, with i counted from 1 here.
InLoop(i) == i <= Len(melody)

\* Fault variant: the 100 ms wait taken after the last note as well.
HasGapAlways(i) == TRUE

\* line 131: if (i < melody.length - 1), with i counted from 1 here.
HasGap(i) == i < Len(melody)

\* Fault variant: setIsPlaying(false) of line 136 left out.
PlayingAfterRunKept == isPlaying

\* line 136: the value given to setIsPlaying once the loop is left.
PlayingAfterRun == FALSE

\* Run j reaches the loop test with index i; `keys` is the active-key set
\* written so far by this resumption.  Either the body starts on melody[i]
\* (lines 124-128) or the loop is left (line 136) and the invocation returns.
Iterate(j, i, keys) ==
    IF InLoop(i)
    THEN /\ activeKeys' = DemoShow(i)
         /\ sound' = playSound(audioContext, melody[i].frequency, DemoDuration)
         /\ runs' = [runs EXCEPT ![j].i = i, ![j].pc = "hold", ![j].ms = NoteHoldMs,
                                 ![j].age = 0,
                                 ![j].shown = Append(runs[j].shown, melody[i].note)]
         /\ UNCHANGED isPlaying
         /\ lastEvent' = [op |-> "demoNext", arg |-> melody[i].note, result |-> "done"]
    ELSE /\ activeKeys' = keys
         /\ sound' = << >>
         /\ runs' = RemoveAt(runs, j)
         /\ isPlaying' = PlayingAfterRun
         /\ lastEvent' = [op |-> "demoEnd", arg |-> "", result |-> "done"]

\* Resumption after the 600 ms await (lines 128-133).
DemoClear(j) ==
    /\ j \in DOMAIN runs
    /\ runs[j].pc = "hold"
    /\ Due(runs[j])
    /\ IF HasGap(runs[j].i)
       THEN /\ activeKeys' = {}
            /\ sound' = << >>
            /\ runs' = [runs EXCEPT ![j].pc = "gap", ![j].ms = NoteGapMs, ![j].age = 0]
            /\ UNCHANGED isPlaying
            /\ lastEvent' = [op |-> "demoClear", arg |-> melody[runs[j].i].note,
                             result |-> "done"]
       ELSE Iterate(j, runs[j].i + 1, {})
    /\ UNCHANGED <<audioContext, hasInteracted, timers, messages, failed>>
    /\ Commit

\* Resumption after the 100 ms await (line 132): back to the loop test.
DemoNext(j) ==
    /\ j \in DOMAIN runs
    /\ runs[j].pc = "gap"
    /\ Due(runs[j])
    /\ Iterate(j, runs[j].i + 1, activeKeys)
    /\ UNCHANGED <<audioContext, hasInteracted, timers, messages, failed>>
    /\ Commit

(***************************************************************************)
(* Passage of time: TickMs elapse for every pending timeout.  A timeout    *)
(* that is due fires before the clock moves on.                            *)
(***************************************************************************)
Aged(t) == [t EXCEPT !.age = t.age + TickMs]

Pending == BagToSet(timers) \cup {runs[j] : j \in DOMAIN runs}

Tick ==
    /\ Pending # {}
    /\ \A t \in Pending : ~Due(t)
    /\ timers' = [u \in {Aged(t) : t \in BagToSet(timers)} |->
                    timers[[u EXCEPT !.age = u.age - TickMs]]]
    /\ runs' = [j \in DOMAIN runs |-> Aged(runs[j])]
    /\ UNCHANGED <<activeKeys, isPlaying, audioContext, hasInteracted, rendered,
                   messages, failed, batching>>
    /\ sound' = << >>
    /\ lastEvent' = [op |-> "tick", arg |-> "", result |-> "done"]

UserClick == \E n \in ClickedKeys : \E created \in CreationOutcomes : Click(KeyOf(n), created)

UserKeyDown == \E k \in TypedKeys : \E created \in CreationOutcomes : handleKeyDown(k, created)

UserPlayDemo == \E created \in CreationOutcomes : playDemo(created)

TimeoutFires == \E t \in BagToSet(timers) : RemoveActive(t)

DemoClears == \E j \in DOMAIN runs : DemoClear(j)

DemoAdvances == \E j \in DOMAIN runs : DemoNext(j)

Next ==
    \/ UserClick
    \/ UserKeyDown
    \/ UserPlayDemo
    \/ TimeoutFires
    \/ DemoClears
    \/ DemoAdvances
    \/ Tick

Spec == Init /\ [][Next]_vars

\* Timers fire and time passes; user events are under no obligation to happen.
Fairness == WF_vars(TimeoutFires) /\ WF_vars(DemoClears) /\ WF_vars(DemoAdvances) /\ WF_vars(Tick)

FairSpec == Spec /\ Fairness

(***************************************************************************)
(* The demo button under batched updates.  The set-state calls of a click  *)
(* handler are queued and React re-renders once the handlers dispatched in *)
(* the task have returned, so a click dispatched before that re-render is  *)
(* handled by the closures (and the enabled button) of the render before   *)
(* it.  Timer callbacks are tasks of their own and find the render done.   *)
(***************************************************************************)
Cells == [activeKeys |-> activeKeys, isPlaying |-> isPlaying,
          hasInteracted |-> hasInteracted]

RenderPending == rendered # Cells

Render ==
    /\ batching
    /\ RenderPending
    /\ rendered' = Cells
    /\ UNCHANGED <<activeKeys, isPlaying, audioContext, hasInteracted, timers,
                   runs, messages, failed, batching>>
    /\ sound' = << >>
    /\ lastEvent' = [op |-> "render", arg |-> "", result |-> "done"]

BatchedInit ==
    /\ activeKeys = {}
    /\ isPlaying = FALSE
    /\ audioContext = Null
    /\ hasInteracted = FALSE
    /\ rendered = [activeKeys |-> {}, isPlaying |-> FALSE, hasInteracted |-> FALSE]
    /\ timers = EmptyBag
    /\ runs = << >>
    /\ messages = NoMessages
    /\ sound = << >>
    /\ failed = FALSE
    /\ batching = TRUE
    /\ lastEvent = [op |-> "mount", arg |-> "", result |-> "done"]

BatchedNext ==
    \/ UserPlayDemo
    \/ Render
    \/ ~RenderPending /\ DemoClears
    \/ ~RenderPending /\ DemoAdvances
    \/ ~RenderPending /\ Tick

BatchedSpec == BatchedInit /\ [][BatchedNext]_vars

(***************************************************************************)
(* The keyboard lookup on its own (line 101), for every event.key of       *)
(* EventKeys: a keydown event is dispatched to the mounted component and   *)
(* the listener evaluates keyMap[event.key.toLowerCase()].                 *)
(***************************************************************************)
LowerLetters ==
    {"a", "b", "c", "d", "e", "f", "g", "h", "i", "j", "k", "l", "m",
     "n", "o", "p", "q", "r", "s", "t", "u", "v", "w", "x", "y", "z"}

Digits == {"0", "1", "2", "3", "4", "5", "6", "7", "8", "9"}

EventKeys ==
    LowerLetters \cup DOMAIN UpperCase \cup Digits
        \cup {" ", "#", "@", "!", "%", "^", "&", "-", "=", ",", ".", ";", "/"}

LookupInit ==
    /\ activeKeys = {}
    /\ isPlaying = FALSE
    /\ audioContext = Null
    /\ hasInteracted = FALSE
    /\ rendered = [activeKeys |-> {}, isPlaying |-> FALSE, hasInteracted |-> FALSE]
    /\ timers = EmptyBag
    /\ runs = << >>
    /\ messages = NoMessages
    /\ sound = << >>
    /\ failed = FALSE
    /\ batching = FALSE
    /\ lastEvent \in {[op |-> "keydown", arg |-> k, result |-> "dispatched"] :
                        k \in EventKeys}

Lookup ==
    /\ lastEvent.result = "dispatched"
    /\ lastEvent' = [op |-> "keyMap", arg |-> lastEvent.arg,
                     result |-> KeyMapLookup(lastEvent.arg).note]
    /\ UNCHANGED <<activeKeys, isPlaying, audioContext, hasInteracted, rendered,
                   timers, runs, messages, sound, failed, batching>>

LookupSpec == LookupInit /\ [][Lookup]_vars

(***************************************************************************)
(* Properties.                                                             *)
(***************************************************************************)
\* A step that handled a call of handleKeyPress or playDemo to its end,
\* that is, an operation that called initAudioContext and returned.
Activated(e) == e.op \in {"click", "keydown", "playDemo"} /\ e.result = "done"

\* C1: with audio engine creation succeeding, the BLOCK_COMPLETION
\* notification (one message to the window, one to its parent) is sent
\* exactly once, by the first operation that calls initAudioContext, and
\* never again by a later activation or demo run: at most one pair is ever
\* sent, every operation that got through initAudioContext leaves exactly
\* one pair sent, and the only step that sends is one that finds nothing
\* sent yet.
C1_NotifiedOnce ==
    /\ [](/\ messages.window = messages.parent
          /\ messages.window \in {0, 1}
          /\ (Activated(lastEvent) => messages.window = 1))
    /\ [][messages' # messages =>
            /\ messages = NoMessages
            /\ messages' = [window |-> 1, parent |-> 1]
            /\ Activated(lastEvent')]_vars

\* Two removal timeouts are pending and a demo is running, all after the
\* notification: several operations have used audio since it was sent.
C1_Witness ==
    /\ messages = [window |-> 1, parent |-> 1]
    /\ BagCardinality(timers) = 2
    /\ runs # << >>
    /\ lastEvent.op = "click"
    /\ lastEvent.result = "done"

DemoOrder == << "C", "E", "G", "G", "F", "D", "C" >>

FrequencyOf(note) == KeyOf(note).frequency

\* C3: a demo run performs exactly 7 steps in the order C, E, G, G, F, D, C:
\* each step sets the active-key set to exactly that note and plays its
\* pitch for 0.5 s, 600 ms later the set is emptied, and a further 100 ms
\* pass before the next step, except after the last one.
C3_DemoSteps ==
    /\ [](\A j \in DOMAIN runs :
            /\ runs[j].i \in 1..7
            /\ runs[j].shown = SubSeq(DemoOrder, 1, runs[j].i)
            /\ \/ runs[j].pc = "hold" /\ runs[j].ms = 600
               \/ runs[j].pc = "gap" /\ runs[j].ms = 100 /\ runs[j].i < 7
            /\ runs[j].age <= runs[j].ms)
    /\ [][/\ (lastEvent'.op = "playDemo" /\ lastEvent'.result = "done") =>
               /\ activeKeys' = {"C"}
               /\ sound' = << [frequency |-> FrequencyOf("C"), duration |-> 500] >>
          /\ lastEvent'.op = "demoNext" =>
               \E j \in DOMAIN runs :
                  /\ runs[j].pc = "gap" /\ runs[j].age = 100
                  /\ activeKeys' = {DemoOrder[runs[j].i + 1]}
                  /\ sound' = << [frequency |-> FrequencyOf(DemoOrder[runs[j].i + 1]),
                                  duration |-> 500] >>
          /\ lastEvent'.op = "demoClear" =>
               \E j \in DOMAIN runs :
                  /\ runs[j].pc = "hold" /\ runs[j].age = 600 /\ runs[j].i < 7
                  /\ activeKeys' = {} /\ sound' = << >>
          /\ lastEvent'.op = "demoEnd" =>
               \E j \in DOMAIN runs :
                  /\ runs[j].pc = "hold" /\ runs[j].age = 600
                  /\ runs[j].shown = DemoOrder
                  /\ activeKeys' = {} /\ sound' = << >>]_vars

\* A run has shown all seven notes and the last one's 600 ms have elapsed.
C3_Witness ==
    \E j \in DOMAIN runs :
        runs[j].shown = DemoOrder /\ runs[j].pc = "hold" /\ runs[j].age = NoteHoldMs

NoteOf(e) == IF e.op = "click" THEN e.arg ELSE KeyMapLookup(e.arg).note

\* C5: activating any key (handleKeyPress) adds its note to the active-key
\* set immediately and removes it exactly 200 ms later, and neither the
\* addition nor the timed removal changes the membership of another note.
C5_ActivationHighlight ==
    /\ [](\A t \in BagToSet(timers) : t.ms = 200 /\ t.age \in 0..200)
    /\ [][/\ (lastEvent'.op \in {"click", "keydown"} /\ lastEvent'.result # "ignored") =>
               /\ activeKeys' = activeKeys \cup {NoteOf(lastEvent')}
               /\ timers' = timers (+)
                     SetToBag({[note |-> NoteOf(lastEvent'), ms |-> 200, age |-> 0]})
          /\ lastEvent'.op = "timeout" =>
               \E t \in BagToSet(timers) :
                  /\ t.note = lastEvent'.arg
                  /\ t.age = 200
                  /\ timers' = timers (-) SetToBag({t})
                  /\ activeKeys' = activeKeys \ {t.note}]_vars

C7_FailureIsSilent == lastEvent.result # "threw"

\* C8: the audio engine handle is created at most once per session: once
\* it is non-null, a later initAudioContext call creates and sends nothing,
\* and no step replaces the handle or resets it to null.
C8_HandleCreatedOnce ==
    /\ [](audioContext \in {Null, 1})
    /\ [][audioContext # Null =>
            /\ audioContext' = audioContext
            /\ hasInteracted' = hasInteracted
            /\ messages' = messages]_vars

\* A demo has been started after a key activation had created the handle:
\* playDemo's initAudioContext call found it.
C8_Witness ==
    /\ audioContext = 1
    /\ lastEvent = [op |-> "playDemo", arg |-> "", result |-> "done"]
    /\ timers # EmptyBag

\* C9: under fair firing of timers, every demo run that starts finishes
\* and clears the playing flag, whatever clicks, keydowns or removal timers
\* are interleaved with it.
C9_DemoTerminates ==
    (runs # << >>) ~> (lastEvent.op = "demoEnd" /\ runs = << >> /\ ~isPlaying)

\* A run has ended while two user activations of its last 200 ms still
\* have their removal timers pending.
C9_Witness ==
    /\ lastEvent.op = "demoEnd"
    /\ ~isPlaying
    /\ BagCardinality(timers) = 2

\* C10: a click on a key always runs the activation (note added to the
\* active-key set, tone played, 200 ms removal scheduled), whether or not
\* the note is already active and whether or not the demo is running.
C10_ClickAlwaysActivates ==
    [][lastEvent'.op = "click" =>
          /\ lastEvent'.arg \in activeKeys'
          /\ sound' = << [frequency |-> FrequencyOf(lastEvent'.arg), duration |-> 300] >>
          /\ BagCardinality(timers') = BagCardinality(timers) + 1
          /\ BagIn([note |-> lastEvent'.arg, ms |-> 200, age |-> 0], timers')]_vars

\* The natural and sharp notes in keyboard order, as the specification
\* lists them.
NaturalOf == ("q" :> "C") @@ ("w" :> "D") @@ ("e" :> "E") @@ ("r" :> "F") @@
             ("t" :> "G") @@ ("y" :> "A") @@ ("u" :> "B") @@ ("i" :> "C2")

SharpOf == ("2" :> "C#") @@ ("3" :> "D#") @@ ("5" :> "F#") @@ ("6" :> "G#") @@
           ("7" :> "A#")

UpperOf == ("Q" :> "C") @@ ("W" :> "D") @@ ("E" :> "E") @@ ("R" :> "F") @@
           ("T" :> "G") @@ ("Y" :> "A") @@ ("U" :> "B") @@ ("I" :> "C2")

\* C11 as stated: q w e r t y u i map to C D E F G A B C2 and 2 3 5 6 7 to
\* C# D# F# G# A#, in that order; every other character maps to no key.
C11_KeyMapFixed ==
    lastEvent.op = "keyMap" =>
        lastEvent.result =
            IF lastEvent.arg \in DOMAIN NaturalOf THEN NaturalOf[lastEvent.arg]
            ELSE IF lastEvent.arg \in DOMAIN SharpOf THEN SharpOf[lastEvent.arg]
            ELSE "undefined"

\* C11 as amended: the same mapping, with the upper-case letters
\* Q W E R T Y U I mapped like their lower case; every other event.key maps
\* to no key.
C11_KeyMapCaseInsensitive ==
    lastEvent.op = "keyMap" =>
        lastEvent.result =
            IF lastEvent.arg \in DOMAIN NaturalOf THEN NaturalOf[lastEvent.arg]
            ELSE IF lastEvent.arg \in DOMAIN SharpOf THEN SharpOf[lastEvent.arg]
            ELSE IF lastEvent.arg \in DOMAIN UpperOf THEN UpperOf[lastEvent.arg]
            ELSE "undefined"

\* The listener has looked up an upper-case Q and found the key C.
C11_Witness == lastEvent = [op |-> "keyMap", arg |-> "Q", result |-> "C"]

\* C12: the key catalog has exactly 13 entries, 8 naturals and 5 sharps,
\* whose note identifiers are pairwise distinct, and it is the same catalog
\* in every state: whatever activations, timers and demo steps have run,
\* the notes they have put in the active-key set or on a removal timer are
\* entries of it.
C12_Catalog ==
    /\ Len(whiteKeys) = 8
    /\ Len(blackKeys) = 5
    /\ Len(AllKeys) = 13
    /\ \A i \in DOMAIN whiteKeys : ~whiteKeys[i].isBlack
    /\ \A i \in DOMAIN blackKeys : blackKeys[i].isBlack
    /\ \A i, j \in DOMAIN AllKeys : i # j => AllKeys[i].note # AllKeys[j].note
    /\ Cardinality(Notes) = 13
    /\ activeKeys \subseteq Notes
    /\ \A t \in BagToSet(timers) : t.note \in Notes /\ KeyOf(t.note).note = t.note

\* A removal timer has fired during a demo run that shows a note: an
\* activation, a timer and a demo step have all run.
C12_Witness ==
    /\ lastEvent.op = "timeout"
    /\ runs # << >>
    /\ activeKeys # {}

\* C13: a key activated again before the 200 ms removal timer of its
\* earlier activation has fired leaves that timer as it is (not cancelled,
\* not reset); when the earlier timer fires it removes the note, so the
\* re-triggered highlight is cleared less than 200 ms after the second
\* activation, the second timer stays pending, and a removal that finds the
\* note already gone changes nothing.
C13_EarlierTimerStands ==
    [][/\ (lastEvent'.op \in {"click", "keydown"} /\ lastEvent'.result = "done") =>
               \A t \in BagToSet(timers) : CopiesIn(t, timers') >= CopiesIn(t, timers)
       /\ lastEvent'.op = "timeout" =>
               /\ lastEvent'.arg \notin activeKeys'
               /\ \A t \in BagToSet(timers) :
                     (t.note = lastEvent'.arg /\ t.age < 200) =>
                         CopiesIn(t, timers') = CopiesIn(t, timers)
               /\ lastEvent'.arg \notin activeKeys => activeKeys' = activeKeys]_vars

\* The first timer of C has fired 100 ms after C was activated again: the
\* highlight is off while the second timer is still pending.
C13_Witness ==
    /\ lastEvent = [op |-> "timeout", arg |-> "C", result |-> "done"]
    /\ "C" \notin activeKeys
    /\ runs = << >>
    /\ \E t \in BagToSet(timers) : t.note = "C" /\ t.age = 100

\* C14: a key clicked while the demo is running still gets its tone and
\* its note added to the active-key set, but each write of the sequencer
\* (the shown note alone, or the empty set) replaces the whole set whatever
\* the user put in it and leaves the user's timers pending; and a user's
\* removal timer for the note the demo is showing removes that note.
C14_DemoOverwrites ==
    [][/\ (lastEvent'.op = "click" /\ runs # << >>) =>
               /\ lastEvent'.result = "done"
               /\ lastEvent'.arg \in activeKeys'
               /\ sound' = << [frequency |-> FrequencyOf(lastEvent'.arg),
                               duration |-> 300] >>
               /\ runs' = runs
       /\ lastEvent'.op \in {"demoClear", "demoEnd"} =>
               activeKeys' = {} /\ timers' = timers
       /\ lastEvent'.op = "demoNext" =>
               activeKeys' = {lastEvent'.arg} /\ timers' = timers
       /\ (lastEvent'.op = "playDemo" /\ lastEvent'.result = "done") =>
               activeKeys' = {DemoOrder[1]} /\ timers' = timers
       /\ (/\ lastEvent'.op = "timeout"
           /\ \E j \in DOMAIN runs :
                 runs[j].pc = "hold" /\ DemoOrder[runs[j].i] = lastEvent'.arg) =>
               lastEvent'.arg \notin activeKeys' /\ runs' = runs]_vars

\* The user's timer for C has just removed the C the demo is still showing,
\* while C#, clicked less than 200 ms ago and since dropped by a demo
\* write, is off with its timer still pending.
C14_Witness ==
    /\ lastEvent = [op |-> "timeout", arg |-> "C", result |-> "done"]
    /\ \E j \in DOMAIN runs :
          runs[j].pc = "hold" /\ runs[j].age < 600 /\ DemoOrder[runs[j].i] = "C"
    /\ activeKeys = {}
    /\ \E t \in BagToSet(timers) : t.note = "C#" /\ t.age < 200

\* C15: a creation attempt that throws leaves the audio handle unset and
\* the interaction flag false and sends no notification; the next
\* activation or demo start attempts creation again (it cannot return
\* without a handle), and the first attempt that succeeds sends the
\* notification exactly once.
C15_FailedCreationRetried ==
    /\ [](lastEvent.result = "threw" =>
             /\ failed
             /\ audioContext = Null
             /\ ~hasInteracted /\ ~rendered.hasInteracted
             /\ messages = NoMessages)
    /\ [](failed => messages.window <= 1 /\ messages.parent <= 1)
    /\ [][(failed /\ audioContext = Null /\ Activated(lastEvent')) =>
             /\ audioContext' = 1
             /\ hasInteracted'
             /\ messages' = [window |-> 1, parent |-> 1]]_vars

\* After a failed attempt a later one has succeeded; a demo and a key
\* activation have used the handle since, with one notification sent.
C15_Witness ==
    /\ failed
    /\ audioContext = 1
    /\ messages = [window |-> 1, parent |-> 1]
    /\ runs # << >>
    /\ timers # EmptyBag

\* C16: when audio engine creation succeeds, every activation (each click
\* and each accepted keydown), the first of the session included, starts
\* exactly one tone at that key's pitch with the default 0.3 s duration,
\* however many earlier activations are still sounding.
C16_ActivationTone ==
    [][(lastEvent'.op \in {"click", "keydown"} /\ lastEvent'.result = "done") =>
          sound' = << [frequency |-> FrequencyOf(NoteOf(lastEvent')),
                       duration |-> 300] >>]_vars

\* The key 2 has started the C# tone while the removal timer of an earlier
\* activation is still pending.
C16_Witness ==
    /\ lastEvent = [op |-> "keydown", arg |-> "2", result |-> "done"]
    /\ sound = << [frequency |-> 27718, duration |-> 300] >>
    /\ BagCardinality(timers) = 2

\* C17: no highlight can stay stuck: every note in the active-key set has
\* a pending removal timer for that note or is the note a running demo step
\* is showing; hence with no removal timer pending and no demo running the
\* active-key set is empty.
C17_NoStuckHighlight ==
    /\ \A n \in activeKeys :
          \/ \E t \in BagToSet(timers) : t.note = n
          \/ \E j \in DOMAIN runs : runs[j].pc = "hold" /\ DemoOrder[runs[j].i] = n
    /\ (timers = EmptyBag /\ runs = << >>) => activeKeys = {}

\* Two highlights at once: the E the demo is showing and the C# of a user
\* whose removal timer is pending.
C17_Witness ==
    /\ activeKeys = {"C#", "E"}
    /\ \E j \in DOMAIN runs : runs[j].pc = "hold" /\ runs[j].i = 2
    /\ \E t \in BagToSet(timers) : t.note = "C#"

\* C18: at most one demo-sequencer run is in progress at any time, for
\* every interleaving of demo-button clicks with renders: a playDemo
\* invocation that reads the playing flag captured before an earlier
\* invocation's update was rendered starts no second run.
C18_SingleRun == Len(runs) <= 1

====
